---- MODULE Spec2Model ----
(***************************************************************************)
(* Model of src/ext.rs of the h2 crate: the `:protocol` pseudo-header      *)
(* value (Protocol) and the builder of pseudo-header overrides             *)
(* (PseudoHeadersOverride).                                                *)
(*                                                                         *)
(* A byte buffer (bytes::Bytes, &[u8]) is a sequence of integers 0..255.   *)
(* A string slice (&str) is the sequence of its chars (Unicode scalar      *)
(* values); str::as_bytes is Utf8Encode and reading bytes as a str         *)
(* (from_utf8_unchecked) is Utf8Decode, so that the byte view and the      *)
(* string view of a value are two different things related by the UTF-8    *)
(* conversion.                                                             *)
(***************************************************************************)
EXTENDS Integers, Sequences, FiniteSets, TLC

VARIABLES
    buf,      \* the untrusted byte buffer received off the wire
    strA,     \* a string the caller holds (&'static str or &str)
    strB,     \* a second string the caller holds
    p,        \* Option<Protocol>: a Protocol value owned by the caller
    q,        \* Option<Protocol>: a second Protocol value owned by the caller
    result,   \* what the last Protocol::try_from returned (NoResult before)
    ovr,      \* the PseudoHeadersOverride being built
    calls,    \* history: per field, the setters called on it, oldest first
    lastArg,  \* history: per field, the text of the argument of the last call
    cloneOf   \* history: where the clone of p is, and p's views when cloned

vars == <<buf, strA, strB, p, q, result, ovr, calls, lastArg, cloneOf>>

(***************************************************************************)
(* Bounds of the model.                                                    *)
(***************************************************************************)
\* longest wire buffer
MaxLen == 4
\* longest caller string, in chars
MaxChars == 2
\* most setter calls recorded per field of an override set
MaxSets == 2

(***************************************************************************)
(* Option and Result.                                                      *)
(***************************************************************************)
None == [some |-> FALSE]
Some(x) == [some |-> TRUE, v |-> x]

NoResult == [tag |-> "none"]
Ok(x) == [tag |-> "Ok", v |-> x]
Err(e) == [tag |-> "Err", e |-> e]

(***************************************************************************)
(* UTF-8, as core::str does it.                                            *)
(***************************************************************************)
\* core::str::validations::utf8_char_width (the UTF8_CHAR_WIDTH table)
utf8_char_width(b) ==
    IF b < 128 THEN 1
    ELSE IF b < 194 THEN 0
    ELSE IF b < 224 THEN 2
    ELSE IF b < 240 THEN 3
    ELSE IF b < 245 THEN 4
    ELSE 0

\* a continuation byte, 0x80..0xBF (`next!() as i8 >= -64` is its negation)
IsCont(b) == b >= 128 /\ b <= 191

\* the (first, second) pairs run_utf8_validation accepts for a 3-byte char
Second3Ok(first, second) ==
    \/ first = 224 /\ second >= 160 /\ second <= 191
    \/ first >= 225 /\ first <= 236 /\ IsCont(second)
    \/ first = 237 /\ second >= 128 /\ second <= 159
    \/ first >= 238 /\ first <= 239 /\ IsCont(second)

\* the (first, second) pairs run_utf8_validation accepts for a 4-byte char
Second4Ok(first, second) ==
    \/ first = 240 /\ second >= 144 /\ second <= 191
    \/ first >= 241 /\ first <= 243 /\ IsCont(second)
    \/ first = 244 /\ second >= 128 /\ second <= 143

\* core::str::Utf8Error; error_len 0 stands for None (unexpected end of input)
Utf8Error(upTo, len) == [valid_up_to |-> upTo, error_len |-> len]

\* core::str::validations::run_utf8_validation from byte `index` (0-based) on
RECURSIVE Validate(_, _)
Validate(v, index) ==
    IF index >= Len(v) THEN Ok(v)
    ELSE
      LET first == v[index + 1]
          w == utf8_char_width(first)
          has(k) == index + k < Len(v)
          at(k) == v[index + k + 1]
          err(n) == Err(Utf8Error(index, n))
      IN  IF first < 128 THEN Validate(v, index + 1)
          ELSE IF w = 2 THEN
              IF ~has(1) THEN err(0)
              ELSE IF ~IsCont(at(1)) THEN err(1)
              ELSE Validate(v, index + 2)
          ELSE IF w = 3 THEN
              IF ~has(1) THEN err(0)
              ELSE IF ~Second3Ok(first, at(1)) THEN err(1)
              ELSE IF ~has(2) THEN err(0)
              ELSE IF ~IsCont(at(2)) THEN err(2)
              ELSE Validate(v, index + 3)
          ELSE IF w = 4 THEN
              IF ~has(1) THEN err(0)
              ELSE IF ~Second4Ok(first, at(1)) THEN err(1)
              ELSE IF ~has(2) THEN err(0)
              ELSE IF ~IsCont(at(2)) THEN err(2)
              ELSE IF ~has(3) THEN err(0)
              ELSE IF ~IsCont(at(3)) THEN err(3)
              ELSE Validate(v, index + 4)
          ELSE err(1)

\* core::str::from_utf8: Ok(the buffer, now known to be a str) or Err(Utf8Error)
from_utf8(v) == Validate(v, 0)

\* char::encode_utf8: the bytes of one char
encode_utf8(c) ==
    IF c < 128 THEN <<c>>
    ELSE IF c < 2048 THEN <<192 + (c \div 64), 128 + (c % 64)>>
    ELSE IF c < 65536 THEN
        <<224 + (c \div 4096), 128 + ((c \div 64) % 64), 128 + (c % 64)>>
    ELSE <<240 + (c \div 262144), 128 + ((c \div 4096) % 64),
           128 + ((c \div 64) % 64), 128 + (c % 64)>>

\* str::as_bytes: the bytes of a string, char by char
RECURSIVE Utf8Encode(_)
Utf8Encode(s) ==
    IF s = <<>> THEN <<>> ELSE encode_utf8(Head(s)) \o Utf8Encode(Tail(s))

\* core::str::validations::next_code_point at byte `i` (1-based): the char and
\* the number of bytes it takes. It trusts its input; a byte it would read
\* past the end is taken as 0 here.
next_code_point(v, i) ==
    LET x == v[i]
        low(k) == IF i + k <= Len(v) THEN v[i + k] % 64 ELSE 0
    IN  IF x < 128 THEN [ch |-> x, n |-> 1]
        ELSE IF x < 224 THEN [ch |-> (x % 32) * 64 + low(1), n |-> 2]
        ELSE IF x < 240 THEN
            [ch |-> (x % 32) * 4096 + low(1) * 64 + low(2), n |-> 3]
        ELSE [ch |-> (x % 8) * 262144 + low(1) * 4096 + low(2) * 64 + low(3),
              n |-> 4]

\* str::from_utf8_unchecked followed by chars(): the string a buffer reads as
RECURSIVE DecodeFrom(_, _)
DecodeFrom(v, i) ==
    IF i > Len(v) THEN <<>>
    ELSE LET c == next_code_point(v, i)
         IN  <<c.ch>> \o DecodeFrom(v, i + c.n)

Utf8Decode(v) == DecodeFrom(v, 1)

(***************************************************************************)
(* crate::hpack::BytesStr: a Bytes known to hold UTF-8.  `storage` is the  *)
(* backing of the Bytes: "static" (Bytes::from_static) or "shared" (a      *)
(* reference-counted allocation).                                          *)
(***************************************************************************)
BytesStr_from_static(value) == [bytes |-> Utf8Encode(value), storage |-> "static"]

BytesStr_from(value) == [bytes |-> Utf8Encode(value), storage |-> "shared"]

BytesStr_try_from(bytes) ==
    LET r == from_utf8(bytes)
    IN  IF r.tag = "Err" THEN r
        ELSE Ok([bytes |-> bytes, storage |-> "shared"])

BytesStr_as_str(b) == Utf8Decode(b.bytes)

BytesStr_as_ref(b) == b.bytes

\* derive(PartialEq) over Bytes, which compares the byte slices
BytesStr_eq(a, b) == a.bytes = b.bytes

(***************************************************************************)
(* Protocol                                                                *)
(***************************************************************************)
Protocol_from_static(value) == [value |-> BytesStr_from_static(value)]

Protocol_as_str(self) == BytesStr_as_str(self.value)

\* a try_from that swallows the error and keeps the valid prefix of the buffer
Protocol_try_from_lossy(bytes) ==
    LET r == BytesStr_try_from(bytes)
    IN  IF r.tag = "Err"
        THEN Ok([value |-> [bytes |-> SubSeq(bytes, 1, r.e.valid_up_to),
                            storage |-> "shared"]])
        ELSE Ok([value |-> r.v])

\* a try_from that accepts ASCII only
Protocol_try_from_ascii(bytes) ==
    LET r == BytesStr_try_from(bytes)
        high == {i \in 1..Len(bytes) : bytes[i] >= 128}
        first == CHOOSE i \in high : \A j \in high : i <= j
    IN  IF r.tag = "Err" THEN r
        ELSE IF high # {} THEN Err(Utf8Error(first - 1, 1))
        ELSE Ok([value |-> r.v])

\* a try_from that wraps the buffer without validating it
Protocol_try_from_unchecked(bytes) ==
    Ok([value |-> [bytes |-> bytes, storage |-> "shared"]])

Protocol_try_from(bytes) ==
    LET r == BytesStr_try_from(bytes)
    IN  IF r.tag = "Err" THEN r
        ELSE Ok([value |-> r.v])

Protocol_from(value) == [value |-> BytesStr_from(value)]

Protocol_as_ref(self) == BytesStr_as_ref(self.value)

\* a clone that is a fresh empty value
Protocol_clone_empty(self) == [value |-> BytesStr_from_static(<<>>)]

\* derive(Clone): a new value over the same bytes
Protocol_clone(self) == [value |-> self.value]

\* an equality that tells the two kinds of backing storage apart
Protocol_eq_identity(a, b) == a.value = b.value

\* derive(PartialEq, Eq)
Protocol_eq(a, b) == BytesStr_eq(a.value, b.value)

(***************************************************************************)
(* PseudoHeadersOverride.  A Method, a Scheme, an Authority and a          *)
(* PathAndQuery of the http crate are parsed values; `data` is the text    *)
(* their as_str() returns.                                                 *)
(***************************************************************************)
\* http::uri::Authority::as_str, http::uri::PathAndQuery::as_str
Uri_as_str(x) == x.data

PseudoHeadersOverride_new ==
    [method |-> None, scheme |-> None, authority |-> None, path |-> None,
     protocol |-> None]

set_method(self, method) == [self EXCEPT !.method = Some(method)]

\* a set_scheme that starts from a fresh set
set_scheme_reset(self, scheme) ==
    [PseudoHeadersOverride_new EXCEPT !.scheme = Some(scheme)]

set_scheme(self, scheme) == [self EXCEPT !.scheme = Some(scheme)]

set_authority(self, authority) ==
    [self EXCEPT !.authority = Some(BytesStr_from(Uri_as_str(authority)))]

\* a set_authority_str that takes the empty string as "unset"
set_authority_str_unsets(self, authority) ==
    [self EXCEPT !.authority =
        IF authority = <<>> THEN None ELSE Some(BytesStr_from(authority))]

set_authority_str(self, authority) ==
    [self EXCEPT !.authority = Some(BytesStr_from(authority))]

set_path_and_query(self, path) ==
    [self EXCEPT !.path = Some(BytesStr_from(Uri_as_str(path)))]

\* a set_path that keeps a path that is already set
set_path_first_wins(self, path) ==
    IF self.path.some THEN self
    ELSE [self EXCEPT !.path = Some(BytesStr_from(path))]

\* a set_path that ignores what is no legal path: "" or text with a space
set_path_validating(self, path) ==
    IF path = <<>> \/ \E i \in 1..Len(path) : path[i] = 32 THEN self
    ELSE [self EXCEPT !.path = Some(BytesStr_from(path))]

set_path(self, path) == [self EXCEPT !.path = Some(BytesStr_from(path))]

\* a set_protocol that also forces the method to CONNECT
set_protocol_connect(self, protocol) ==
    [self EXCEPT !.protocol = Some(protocol), !.method = Some("CONNECT")]

set_protocol(self, protocol) == [self EXCEPT !.protocol = Some(protocol)]

(***************************************************************************)
(* Inputs.                                                                 *)
(***************************************************************************)
\* bytes of every class the validation tells apart: ASCII 'a', continuation
\* bytes 0x80 and 0xA0, the leads 0xC3 (2 bytes), 0xE0 and 0xED (3 bytes,
\* restricted second byte), 0xF0 (4 bytes), and the never-valid 0xFE, 0xFF
WireBytes == {97, 128, 160, 195, 224, 237, 240, 254, 255}

RECURSIVE SeqsUpTo(_, _)
SeqsUpTo(S, n) ==
    IF n = 0 THEN {<<>>}
    ELSE LET shorter == SeqsUpTo(S, n - 1)
         IN  shorter \cup {Append(s, x) : s \in shorter, x \in S}

WireBufs == SeqsUpTo(WireBytes, MaxLen)

\* an ASCII char and a multi-byte one: 'a', U+20AC
Chars == {97, 8364}

Strs == SeqsUpTo(Chars, MaxChars)

\* "", "a", U+20AC
ShortStrs == {<<>>} \cup {<<c>> : c \in Chars}

\* a buffer that is not UTF-8
BadWire == <<255, 254>>

\* "GET", "CONNECT"
Methods == {"GET", "CONNECT"}

\* "http", "https"
Schemes == {"http", "https"}

\* "a:8"
Authorities == {[data |-> <<97, 58, 56>>]}

\* "", and " ", which is no legal authority
RawAuthorities == {<<>>, <<32>>}

\* "/?a"
PathAndQuerys == {[data |-> <<47, 63, 97>>]}

\* "" and "/a/b"
RawPaths == {<<>>, <<47, 97, 47, 98>>}

\* strings a raw-string setter can be given: the above, " " and "a b" (no
\* legal path), and non-ASCII text
RawTexts == RawAuthorities \cup RawPaths \cup ShortStrs \cup {<<97, 32, 98>>}

\* Protocol::from_static("h2c"), Protocol::from("a")
ProtocolArgs == {Protocol_from_static(<<104, 50, 99>>), Protocol_from(<<97>>)}

(***************************************************************************)
(* History variables.                                                      *)
(***************************************************************************)
Fields == {"method", "scheme", "authority", "path", "protocol"}

NoCalls == [f \in Fields |-> <<>>]
NoArgs == [f \in Fields |-> None]
Called(f, setter, arg) ==
    /\ Len(calls[f]) < MaxSets
    /\ calls' = [calls EXCEPT ![f] = Append(@, setter)]
    /\ lastArg' = [lastArg EXCEPT ![f] = Some(arg)]

NoClone == [where |-> "none"]
CloneAt(where, orig) ==
    [where |-> where, str |-> Protocol_as_str(orig), bytes |-> Protocol_as_ref(orig)]

(***************************************************************************)
(* Decoding a `:protocol` value received off the wire.                     *)
(***************************************************************************)
InitBytes ==
    /\ buf \in WireBufs
    /\ strA = <<>>
    /\ strB = <<>>
    /\ p = None
    /\ q = None
    /\ result = NoResult
    /\ ovr = PseudoHeadersOverride_new
    /\ calls = NoCalls
    /\ lastArg = NoArgs
    /\ cloneOf = NoClone

\* the decoder calls Protocol::try_from on the received buffer
DecodeWire ==
    /\ result = NoResult
    /\ result' = Protocol_try_from(buf)
    /\ p' = IF result'.tag = "Ok" THEN Some(result'.v) ELSE p
    /\ UNCHANGED <<buf, strA, strB, q, ovr, calls, lastArg, cloneOf>>

NextBytes == DecodeWire

SpecBytes == InitBytes /\ [][NextBytes]_vars

(***************************************************************************)
(* A caller building, cloning and installing Protocol values.  A           *)
(* constructor assigns its value to p or to q (the value held before is    *)
(* dropped).                                                               *)
(***************************************************************************)
InitProto ==
    /\ buf = <<>>
    /\ strA \in Strs
    /\ strB \in ShortStrs
    /\ p = None
    /\ q = None
    /\ result = NoResult
    /\ ovr = PseudoHeadersOverride_new
    /\ calls = NoCalls
    /\ lastArg = NoArgs
    /\ cloneOf = NoClone

\* `slot = value`
Assign(slot, value) ==
    /\ p' = IF slot = "p" THEN Some(value) ELSE p
    /\ q' = IF slot = "q" THEN Some(value) ELSE q
    /\ cloneOf' = IF slot = "p" \/ cloneOf.where = "q" THEN NoClone ELSE cloneOf

FromStatic ==
    \E s \in {strA, strB}, slot \in {"p", "q"} :
        /\ Assign(slot, Protocol_from_static(s))
        /\ UNCHANGED <<buf, strA, strB, result, ovr, calls, lastArg>>

FromStr ==
    \E s \in {strA, strB}, slot \in {"p", "q"} :
        /\ Assign(slot, Protocol_from(s))
        /\ UNCHANGED <<buf, strA, strB, result, ovr, calls, lastArg>>

\* try_from on the bytes of a string, or on BadWire
TryFrom ==
    \E b \in {Utf8Encode(strA), Utf8Encode(strB), BadWire},
       slot \in {"p", "q"} :
        /\ result' = Protocol_try_from(b)
        /\ IF result'.tag = "Ok"
           THEN Assign(slot, result'.v)
           ELSE UNCHANGED <<p, q, cloneOf>>
        /\ UNCHANGED <<buf, strA, strB, ovr, calls, lastArg>>

\* `q = p.clone()`
Clone ==
    /\ p.some
    /\ q' = Some(Protocol_clone(p.v))
    /\ cloneOf' = CloneAt("q", p.v)
    /\ UNCHANGED <<buf, strA, strB, p, result, ovr, calls, lastArg>>

\* `ovr = ovr.set_protocol(q)`: q is moved into the override set
MoveIntoSet ==
    /\ q.some
    /\ Called("protocol", "set_protocol", q.v)
    /\ ovr' = set_protocol(ovr, q.v)
    /\ q' = None
    /\ cloneOf' = IF cloneOf.where = "q"
                  THEN [cloneOf EXCEPT !.where = "set"] ELSE NoClone
    /\ UNCHANGED <<buf, strA, strB, p, result>>

NextProto == FromStatic \/ FromStr \/ TryFrom \/ Clone \/ MoveIntoSet

SpecProto == InitProto /\ [][NextProto]_vars

(***************************************************************************)
(* A caller chaining setters on an override set.                           *)
(***************************************************************************)
InitOvr ==
    /\ buf = <<>>
    /\ strA = <<>>
    /\ strB = <<>>
    /\ p = None
    /\ q = None
    /\ result = NoResult
    /\ ovr = PseudoHeadersOverride_new
    /\ calls = NoCalls
    /\ lastArg = NoArgs
    /\ cloneOf = NoClone

NotOvr == <<buf, strA, strB, p, q, result, cloneOf>>

SetMethod ==
    \E method \in Methods :
        /\ Called("method", "set_method", method)
        /\ ovr' = set_method(ovr, method)
        /\ UNCHANGED NotOvr

SetScheme ==
    \E scheme \in Schemes :
        /\ Called("scheme", "set_scheme", scheme)
        /\ ovr' = set_scheme(ovr, scheme)
        /\ UNCHANGED NotOvr

SetAuthority ==
    \E authority \in Authorities :
        /\ Called("authority", "set_authority", authority)
        /\ ovr' = set_authority(ovr, authority)
        /\ UNCHANGED NotOvr

SetAuthorityStr ==
    \E authority \in RawAuthorities :
        /\ Called("authority", "set_authority_str", authority)
        /\ ovr' = set_authority_str(ovr, authority)
        /\ UNCHANGED NotOvr

SetPathAndQuery ==
    \E path \in PathAndQuerys :
        /\ Called("path", "set_path_and_query", path)
        /\ ovr' = set_path_and_query(ovr, path)
        /\ UNCHANGED NotOvr

SetPath ==
    \E path \in RawPaths :
        /\ Called("path", "set_path", path)
        /\ ovr' = set_path(ovr, path)
        /\ UNCHANGED NotOvr

SetProtocol ==
    \E protocol \in ProtocolArgs :
        /\ Called("protocol", "set_protocol", protocol)
        /\ ovr' = set_protocol(ovr, protocol)
        /\ UNCHANGED NotOvr

NextOvr ==
    \/ SetMethod
    \/ SetScheme
    \/ SetAuthority
    \/ SetAuthorityStr
    \/ SetPathAndQuery
    \/ SetPath
    \/ SetProtocol

SpecOvr == InitOvr /\ [][NextOvr]_vars

(***************************************************************************)
(* What the properties below are stated in.                                *)
(***************************************************************************)
\* a Unicode scalar value: at most U+10FFFF and no surrogate
IsScalar(c) == c >= 0 /\ c <= 1114111 /\ ~(c >= 55296 /\ c <= 57343)

IsStr(s) == \A i \in 1..Len(s) : IsScalar(s[i])

\* b is UTF-8: it is the encoding of a sequence of scalar values
WellFormedUtf8(b) ==
    LET s == Utf8Decode(b)
    IN  IsStr(s) /\ Utf8Encode(s) = b

\* the offset of the first invalid sequence of b: the length of the longest
\* prefix of b that is UTF-8
FirstInvalidOffset(b) ==
    CHOOSE k \in 0..Len(b) :
        /\ WellFormedUtf8(SubSeq(b, 1, k))
        /\ \A j \in (k + 1)..Len(b) : ~WellFormedUtf8(SubSeq(b, 1, j))

\* the Protocol values that exist
Live ==
    {s.v : s \in {x \in {p, q, ovr.protocol} : x.some}}
        \cup (IF result.tag = "Ok" THEN {result.v} ELSE {})

\* the text a setter was given
TextOf(setter, arg) ==
    IF setter \in {"set_authority", "set_path_and_query"}
    THEN Uri_as_str(arg) ELSE arg

Last(s) == s[Len(s)]

ApplySetter(o, setter, arg) ==
    CASE setter = "set_method" -> set_method(o, arg)
      [] setter = "set_scheme" -> set_scheme(o, arg)
      [] setter = "set_authority" -> set_authority(o, arg)
      [] setter = "set_authority_str" -> set_authority_str(o, arg)
      [] setter = "set_path_and_query" -> set_path_and_query(o, arg)
      [] setter = "set_path" -> set_path(o, arg)
      [] setter = "set_protocol" -> set_protocol(o, arg)

\* the five fields in every order
Orders == {o \in [1..5 -> Fields] : \A i, j \in 1..5 : o[i] = o[j] => i = j}

\* the set built by calling, in `order`, for each field the setter recorded
\* for it with the argument recorded for it
RECURSIVE Chain(_, _, _)
Chain(o, order, i) ==
    IF i > 5 THEN o
    ELSE Chain(ApplySetter(o, calls[order[i]][1], lastArg[order[i]].v),
               order, i + 1)

(***************************************************************************)
(* Properties.                                                             *)
(***************************************************************************)
\* C1: try_from of a buffer that is not valid UTF-8 returns an error and no
\* Protocol value, and the error reports the offset of the first invalid
\* sequence of the buffer.
C1_InvalidRejected ==
    (result # NoResult /\ ~WellFormedUtf8(buf)) =>
        /\ result.tag = "Err"
        /\ p = None
        /\ result.e.valid_up_to = FirstInvalidOffset(buf)

C1_Witness ==
    /\ buf = BadWire
    /\ result.tag = "Err"
    /\ result.e.valid_up_to = 0
    /\ p = None

\* C2: try_from of a buffer that is valid UTF-8, ASCII or not, empty or not,
\* succeeds; the string view of the value is the decoding of the buffer and
\* its byte view is the buffer.
C2_ValidAccepted ==
    (result # NoResult /\ WellFormedUtf8(buf)) =>
        /\ result.tag = "Ok"
        /\ p = Some(result.v)
        /\ IsStr(Protocol_as_str(p.v))
        /\ Utf8Encode(Protocol_as_str(p.v)) = buf
        /\ Protocol_as_ref(p.v) = buf

C2_Witness ==
    /\ result.tag = "Ok"
    /\ Len(buf) = 4
    /\ buf[1] = 240
    /\ Protocol_as_ref(p.v) = buf
    /\ Len(Protocol_as_str(p.v)) = 1

\* C3: every Protocol value that exists has a payload that is valid UTF-8,
\* and its byte view is the encoding of its string view.
C3_AlwaysUtf8 ==
    \A x \in Live :
        /\ WellFormedUtf8(Protocol_as_ref(x))
        /\ Utf8Encode(Protocol_as_str(x)) = Protocol_as_ref(x)

C3_Witness ==
    /\ result.tag = "Err"
    /\ p.some
    /\ q.some
    /\ ovr.protocol.some
    /\ p.v.value.storage = "static"
    /\ q.v.value.storage = "shared"
    /\ Len(Protocol_as_ref(p.v)) > Len(Protocol_as_str(p.v))

\* C6: two Protocol values are equal iff their string payloads are equal,
\* whatever built them: from_static, From<&str> and try_from of the same text
\* give equal values, and values of different text are unequal.
C6_EqualIffSameText ==
    /\ \A x, y \in Live :
        Protocol_eq(x, y) <=> Protocol_as_str(x) = Protocol_as_str(y)
    /\ LET a == Protocol_from_static(strA)
           b == Protocol_from(strA)
           c == Protocol_try_from(Utf8Encode(strA))
       IN  /\ c.tag = "Ok"
           /\ Protocol_eq(a, b)
           /\ Protocol_eq(a, c.v)
           /\ Protocol_eq(b, c.v)
    /\ Protocol_eq(Protocol_from_static(strA), Protocol_from(strB))
          <=> strA = strB

C6_Witness ==
    /\ p.some
    /\ q.some
    /\ ovr.protocol.some
    /\ p.v.value.storage = "static"
    /\ q.v.value.storage = "shared"
    /\ Protocol_eq(p.v, q.v)
    /\ ~Protocol_eq(p.v, ovr.protocol.v)
    /\ result.tag = "Ok"
    /\ Len(strA) = 2

\* C8: a clone is equal to the value it was cloned from and has the same
\* string and byte views, and the original still has the views it had when
\* it was cloned, also after the clone is moved into an override set.
C8_CloneSameViews ==
    cloneOf.where # "none" =>
        LET c == IF cloneOf.where = "q" THEN q ELSE ovr.protocol
        IN  /\ p.some
            /\ c.some
            /\ Protocol_eq(c.v, p.v)
            /\ Protocol_as_str(c.v) = Protocol_as_str(p.v)
            /\ Protocol_as_ref(c.v) = Protocol_as_ref(p.v)
            /\ Protocol_as_str(p.v) = cloneOf.str
            /\ Protocol_as_ref(p.v) = cloneOf.bytes

C8_Witness ==
    /\ cloneOf.where = "set"
    /\ p.some
    /\ ovr.protocol.some
    /\ q.some
    /\ Len(cloneOf.str) = 2
    /\ Len(cloneOf.bytes) = 4

\* C4: a new override set has every field unset; a setter changes the field
\* it targets and no other, so the fields that are set are the ones a setter
\* was called for; new().set_path("/a/b").set_protocol(from_static("h2c"))
\* has path and protocol set and method, scheme and authority unset.
C4_Scenario ==
    /\ calls = [NoCalls EXCEPT !.path = <<"set_path">>,
                               !.protocol = <<"set_protocol">>]
    /\ lastArg.path = Some(<<47, 97, 47, 98>>)
    /\ lastArg.protocol = Some(Protocol_from_static(<<104, 50, 99>>))

C4_Independent ==
    /\ [](\A f \in Fields : ovr[f].some <=> calls[f] # <<>>)
    /\ [](C4_Scenario =>
            /\ ovr.method = None /\ ovr.scheme = None /\ ovr.authority = None
            /\ BytesStr_as_str(ovr.path.v) = <<47, 97, 47, 98>>
            /\ Protocol_as_str(ovr.protocol.v) = <<104, 50, 99>>)
    /\ [][\A f \in Fields : calls'[f] = calls[f] => ovr'[f] = ovr[f]]_vars

C4_Witness ==
    /\ C4_Scenario
    /\ ovr.path.some
    /\ ovr.protocol.some

\* C5: when each field has had one setter call, the set is the one every
\* order of those five calls builds from new(), and each field holds the
\* value passed for it.
C5_Commute ==
    (\A f \in Fields : Len(calls[f]) = 1) =>
        /\ \A order \in Orders : Chain(PseudoHeadersOverride_new, order, 1) = ovr
        /\ ovr.method = lastArg.method
        /\ ovr.scheme = lastArg.scheme
        /\ ovr.protocol = lastArg.protocol
        /\ \A f \in {"authority", "path"} :
            /\ ovr[f].some
            /\ BytesStr_as_str(ovr[f].v) = TextOf(calls[f][1], lastArg[f].v)

C5_Witness ==
    /\ \A f \in Fields : Len(calls[f]) = 1 /\ ovr[f].some
    /\ calls.authority = <<"set_authority">>
    /\ calls.path = <<"set_path">>

\* C7: a field that is set stays set through every further setter call.
C7_NeverUnset ==
    [][\A f \in Fields : ovr[f].some => ovr'[f].some]_vars

C7_Witness ==
    /\ calls.authority = <<"set_authority", "set_authority_str">>
    /\ lastArg.authority = Some(<<>>)
    /\ ovr.authority.some
    /\ Len(calls.path) = 2
    /\ ovr.method.some

\* C9: each field holds the argument of the most recent call that targets
\* it; set_authority and set_authority_str target authority, and
\* set_path_and_query and set_path target path.
C9_LastWriteWins ==
    \A f \in Fields :
        IF calls[f] = <<>> THEN ovr[f] = None
        ELSE IF f \in {"authority", "path"}
        THEN /\ ovr[f].some
             /\ BytesStr_as_str(ovr[f].v) = TextOf(Last(calls[f]), lastArg[f].v)
        ELSE ovr[f] = lastArg[f]

C9_Witness ==
    /\ calls.path = <<"set_path_and_query", "set_path">>
    /\ calls.authority = <<"set_authority_str", "set_authority">>
    /\ Len(calls.method) = 2
    /\ BytesStr_as_str(ovr.path.v) = <<47, 97, 47, 98>>
    /\ BytesStr_as_str(ovr.authority.v) = <<97, 58, 56>>

\* C10: the raw-string setters store any string as it is, the empty string
\* and text that is no legal authority or path included; set_authority(a)
\* and set_authority_str(a.as_str()) give the same authority field, and
\* set_path_and_query(p) and set_path(p.as_str()) the same path field.
C10_RawStored ==
    /\ \A s \in RawTexts :
        LET o == set_authority_str(ovr, s)
        IN  /\ o.authority.some
            /\ BytesStr_as_str(o.authority.v) = s
            /\ BytesStr_as_ref(o.authority.v) = Utf8Encode(s)
    /\ \A s \in RawTexts :
        LET o == set_path(ovr, s)
        IN  /\ o.path.some
            /\ BytesStr_as_str(o.path.v) = s
            /\ BytesStr_as_ref(o.path.v) = Utf8Encode(s)
    /\ (calls.authority # <<>> /\ Last(calls.authority) = "set_authority_str") =>
            ovr.authority.some /\ BytesStr_as_str(ovr.authority.v) = lastArg.authority.v
    /\ (calls.path # <<>> /\ Last(calls.path) = "set_path") =>
            ovr.path.some /\ BytesStr_as_str(ovr.path.v) = lastArg.path.v
    /\ \A a \in Authorities :
        set_authority(ovr, a).authority
            = set_authority_str(ovr, Uri_as_str(a)).authority
    /\ \A pq \in PathAndQuerys :
        set_path_and_query(ovr, pq).path = set_path(ovr, Uri_as_str(pq)).path

C10_Witness ==
    /\ calls.authority # <<>>
    /\ Last(calls.authority) = "set_authority_str"
    /\ lastArg.authority = Some(<<32>>)
    /\ calls.path # <<>>
    /\ Last(calls.path) = "set_path"
    /\ lastArg.path = Some(<<>>)
    /\ ovr.path = Some(BytesStr_from(<<>>))
    /\ BytesStr_as_str(ovr.authority.v) = <<32>>

====
